---------------------------- MODULE Spec2Model ----------------------------
(***************************************************************************)
(* The two registry generators of bluefang:                                *)
(*   src/hci/consts/generate_company_list.py   (company identifier table)  *)
(*   src/sdp/generate_ids.py                   (service class UUID table)  *)
(* Text is modelled as a sequence of one-character strings, so that the    *)
(* regular expressions, the escaping and the number formatting of the      *)
(* scripts are computed character by character.                            *)
(***************************************************************************)
EXTENDS Integers, Sequences, FiniteSets, TLC

VARIABLES
    gen,     \* which script runs: "company" or "uuid"
    pc,      \* position of the running script (or of the function harness)
    data,    \* the parsed document (yaml.safe_load result)
    idx,     \* index of the next entry of the for loop
    out,     \* the lines printed to standard output so far
    err,     \* the exception that ended the run, "" when none
    name,    \* constify harness: the argument
    ident,   \* constify harness: constify(name)
    ident2,  \* constify harness: constify(constify(name))
    uuid,    \* format harness: the integer formatted
    lit      \* format harness: the text '{:#04x}'.format(uuid)

vars == <<gen, pc, data, idx, out, err, name, ident, ident2, uuid, lit>>
genVars == <<gen, data, idx, out, err>>
fnVars == <<name, ident, ident2>>
hexVars == <<uuid, lit>>

-----------------------------------------------------------------------------
(* Bounds *)

MaxLen == 4          \* longest enumerated name given to constify
MaxRecords == 2      \* most records in a fetched document
MaxUuid == 65535     \* largest uuid value formatted (the 16-bit range)

-----------------------------------------------------------------------------
(* Characters *)

UpperSeq == <<"A", "B", "C", "D", "E", "F", "G", "H", "I", "J", "K", "L", "M",
              "N", "O", "P", "Q", "R", "S", "T", "U", "V", "W", "X", "Y", "Z">>
LowerSeq == <<"a", "b", "c", "d", "e", "f", "g", "h", "i", "j", "k", "l", "m",
              "n", "o", "p", "q", "r", "s", "t", "u", "v", "w", "x", "y", "z">>
HexDigits == <<"0", "1", "2", "3", "4", "5", "6", "7", "8", "9",
               "a", "b", "c", "d", "e", "f">>

Upper == {UpperSeq[i] : i \in 1..26}    \* the class [A-Z]
Lower == {LowerSeq[i] : i \in 1..26}    \* the class [a-z]
Delims == {"-", " ", "_"}               \* the class [- _]

\* str.upper() on one character
char_upper(c) ==
    IF c \in Lower THEN UpperSeq[CHOOSE i \in 1..26 : LowerSeq[i] = c] ELSE c

\* A mutant of str_upper: the text is returned as it is.
str_upper_identity(s) == s

\* str.upper()
str_upper(s) == [i \in 1..Len(s) |-> char_upper(s[i])]

Suffix(s, i) == SubSeq(s, i, Len(s))

-----------------------------------------------------------------------------
(* constify, src/sdp/generate_ids.py lines 6-14 *)

\* re.sub(pat, repl, s) for a pattern that matches exactly the text pat:
\* the leftmost matches, not overlapping, are replaced.
RECURSIVE re_sub(_, _, _)
re_sub(pat, repl, s) ==
    IF Len(s) < Len(pat) THEN s
    ELSE IF SubSeq(s, 1, Len(pat)) = pat
         THEN repl \o re_sub(pat, repl, Suffix(s, Len(pat) + 1))
         ELSE <<Head(s)>> \o re_sub(pat, repl, Tail(s))

\* re.split('[- _]', s): a cut at every single delimiter character, empty
\* pieces kept.
RECURSIVE re_split(_)
re_split(s) ==
    IF \A i \in 1..Len(s) : s[i] \notin Delims THEN <<s>>
    ELSE LET i == CHOOSE k \in 1..Len(s) :
                     /\ s[k] \in Delims
                     /\ \A j \in 1..(k - 1) : s[j] \notin Delims
         IN <<SubSeq(s, 1, i - 1)>> \o re_split(Suffix(s, i + 1))

\* filter(len, words)
filter_len(words) == SelectSeq(words, LAMBDA w : Len(w) # 0)

\* Number of characters of class cls at the front of s from position p on.
RECURSIVE run_len(_, _, _)
run_len(s, p, cls) ==
    IF p > Len(s) \/ s[p] \notin cls THEN 0 ELSE 1 + run_len(s, p + 1, cls)

\* A mutant of lookahead: the '$' alternative is missing.
lookahead_no_end(s, p) == p <= Len(s) /\ s[p] \in Upper

\* (?=[A-Z]|$) at position p; '$' matches at the end of the string and
\* before a line break that ends the string.
lookahead(s, p) ==
    \/ p > Len(s)
    \/ s[p] \in Upper
    \/ p = Len(s) /\ s[p] = "\n"

\* A mutant of lower_run: [a-z] instead of [a-z]+.
lower_run_single(s, p) == IF p <= Len(s) /\ s[p] \in Lower THEN 1 ELSE 0

\* [a-z]+ at position p: the number of characters taken, 0 when it fails.
lower_run(s, p) == run_len(s, p, Lower)

\* [A-Z]*(?=[A-Z]|$) at position p with k characters taken by the star;
\* the star is greedy and gives characters back until the lookahead holds.
\* The number of characters taken, or -1 when every length fails.
RECURSIVE upper_run_back(_, _, _)
upper_run_back(s, p, k) ==
    IF k < 0 THEN -1
    ELSE IF lookahead(s, p + k) THEN k
    ELSE upper_run_back(s, p, k - 1)

\* A mutant of upper_run: the star is lazy, [A-Z]*?.
RECURSIVE upper_run_lazy_from(_, _, _)
upper_run_lazy_from(s, p, k) ==
    IF k > run_len(s, p, Upper) THEN -1
    ELSE IF lookahead(s, p + k) THEN k
    ELSE upper_run_lazy_from(s, p, k + 1)
upper_run_lazy(s, p) == upper_run_lazy_from(s, p, 0)

upper_run(s, p) == upper_run_back(s, p, run_len(s, p, Upper))

\* One match attempt of [A-Z](?:[a-z]+|[A-Z]*(?=[A-Z]|$)) at position p:
\* the position after the match, 0 when there is no match at p.
match_at(s, p) ==
    IF p > Len(s) \/ s[p] \notin Upper THEN 0
    ELSE IF lower_run(s, p + 1) > 0 THEN p + 1 + lower_run(s, p + 1)
    ELSE IF upper_run(s, p + 1) >= 0 THEN p + 1 + upper_run(s, p + 1)
    ELSE 0

\* re.findall(pattern, s), scanning from position p.
RECURSIVE findall_from(_, _)
findall_from(s, p) ==
    IF p > Len(s) THEN <<>>
    ELSE LET e == match_at(s, p)
         IN IF e = 0 THEN findall_from(s, p + 1)
            ELSE <<SubSeq(s, p, e - 1)>> \o findall_from(s, e)

findall(s) == findall_from(s, 1)

\* sum([...], []): the lists concatenated in order.
RECURSIVE sum_lists(_)
sum_lists(lists) ==
    IF lists = <<>> THEN <<>> ELSE Head(lists) \o sum_lists(Tail(lists))

\* sep.join(words)
RECURSIVE join(_, _)
join(sep, words) ==
    IF words = <<>> THEN <<>>
    ELSE IF Len(words) = 1 THEN Head(words)
    ELSE Head(words) \o sep \o join(sep, Tail(words))

\* Lines 7-9: the name after the three substitutions.
rewrite(s) ==
    re_sub(<<"3", "D">>, <<"T", "H", "R", "E", "E", "D">>,
        re_sub(<<"I", "r", "M", "C">>, <<"I", "R", "M", "C">>,
            re_sub(<<"/">>, <<>>, s)))

\* Line 10: the non-empty fragments.
fragments(s) == filter_len(re_split(rewrite(s)))

\* Line 11: the word pieces of all fragments.
pieces(s) ==
    LET frags == fragments(s)
    IN sum_lists([i \in 1..Len(frags) |-> findall(frags[i])])

constify(s) ==
    LET words == pieces(s)
    IN join(<<"_">>, [i \in 1..Len(words) |-> str_upper(words[i])])

-----------------------------------------------------------------------------
(* Number formatting *)

\* The hexadecimal digits of v, lowercase, without leading zeros (type 'x').
RECURSIVE hex_digits(_)
hex_digits(v) ==
    IF v < 16 THEN <<HexDigits[v + 1]>>
    ELSE hex_digits(v \div 16) \o <<HexDigits[(v % 16) + 1]>>

zeros(n) == [i \in 1..n |-> "0"]

\* A mutant of format_x: the zero fill is missing.
format_x_nofill(v, alt, width) ==
    (IF alt THEN <<"0", "x">> ELSE <<>>) \o hex_digits(v)

\* format(v, '[#]0<width>x'): with alt the prefix 0x comes first and counts
\* in the width; zeros fill between the prefix and the digits.
format_x(v, alt, width) ==
    LET prefix == IF alt THEN <<"0", "x">> ELSE <<>>
        digits == hex_digits(v)
    IN prefix \o zeros(width - Len(prefix) - Len(digits)) \o digits

\* str.replace(old, new)
str_replace(s, old, new) == re_sub(old, new, s)

-----------------------------------------------------------------------------
(* The lines the scripts print *)

HeaderLine == <<"m", "a", "t", "c", "h", " ", "s", "e", "l", "f", ".", "0", " ", "{">>
DefaultLine == <<" ", " ", " ", " ", "_", " ", "=", ">", " ", "N", "o", "n", "e">>
CloseLine == <<"}">>

\* generate_company_list.py line 9
company_line(entry) ==
    <<" ", " ", " ", " ", "0", "x">>
    \o format_x(entry.value, FALSE, 4)
    \o <<" ", "=", ">", " ", "S", "o", "m", "e", "(", "\"">>
    \o str_replace(entry.name, <<"\"">>, <<"\\", "\"">>)
    \o <<"\"", ")", ",">>

\* generate_ids.py line 20
uuid_line(entry) ==
    <<"p", "u", "b", " ", "c", "o", "n", "s", "t", " ">>
    \o constify(entry.name)
    \o <<":", " ", "U", "u", "i", "d", " ", "=", " ", "U", "u", "i", "d", ":", ":",
         "f", "r", "o", "m", "_", "u", "1", "6", "(">>
    \o format_x(entry.uuid, TRUE, 4)
    \o <<")", ";">>

\* A mutant of print: a line already printed is not printed again.
print_once(lines, line) ==
    IF \E i \in 1..Len(lines) : lines[i] = line THEN lines ELSE Append(lines, line)

\* print(line): the line is added at the end of standard output.
print(lines, line) == Append(lines, line)

-----------------------------------------------------------------------------
(* The documents a run may fetch *)

Values == {4, 6157}

CompanyNames ==
    { <<"A", "c", "m", "e">>,
      <<"H", "i", " ", "\"", "x", "\"">>,
      <<"a", "\\">>,
      <<"\\", "\"">> }

UuidNames ==
    { <<"F", "o", "o", " ", "B", "a", "r">>,
      <<"F", "O", "O", "_", "B", "A", "R">>,
      <<"H", "D", "P">>,
      <<" ", "-", " ">> }

\* The records of a list: well formed ones and ones lacking a field.
CompanyEntries ==
    [value : Values, name : CompanyNames] \cup [name : CompanyNames] \cup [value : Values]
UuidEntries ==
    [uuid : Values, name : UuidNames] \cup [name : UuidNames] \cup [uuid : Values]

SeqsUpTo(S, n) == UNION {[1..k -> S] : k \in 0..n}

\* The top-level key each script reads, and the fields of its records.
TopKey(g) == IF g = "company" THEN "company_identifiers" ELSE "uuids"
Fields(g) == IF g = "company" THEN {"value", "name"} ELSE {"uuid", "name"}

\* A parsed document: a mapping from top-level keys to lists of records.
Docs(g) ==
    { [k \in {TopKey(g)} |-> es] :
        es \in SeqsUpTo(IF g = "company" THEN CompanyEntries ELSE UuidEntries, MaxRecords) }
    \cup { [k \in {"version"} |-> <<>>] }

NoData == [k \in {} |-> <<>>]

-----------------------------------------------------------------------------
(* The scripts, statement by statement *)

Init ==
    /\ gen \in {"company", "uuid"}
    /\ pc = "fetch"
    /\ data = NoData
    /\ idx = 0
    /\ out = <<>>
    /\ err = ""
    /\ name = <<>> /\ ident = <<>> /\ ident2 = <<>>
    /\ uuid = 0 /\ lit = <<>>

Raise(e) ==
    /\ pc' = "crashed"
    /\ err' = e

\* urlopen(...) raises: generate_company_list.py line 5, generate_ids.py line 18
FetchFails ==
    /\ pc = "fetch"
    /\ Raise("URLError")
    /\ UNCHANGED <<gen, data, idx, out, fnVars, hexVars>>

\* yaml.safe_load(...) raises: line 4 / line 17
ParseFails ==
    /\ pc = "fetch"
    /\ Raise("YAMLError")
    /\ UNCHANGED <<gen, data, idx, out, fnVars, hexVars>>

\* data = yaml.safe_load(urlopen(...).read())
Load ==
    /\ pc = "fetch"
    /\ \E d \in Docs(gen) : data' = d
    /\ pc' = IF gen = "company" THEN "header" ELSE "iter"
    /\ UNCHANGED <<gen, idx, out, err, fnVars, hexVars>>

\* generate_company_list.py line 7
PrintHeader ==
    /\ pc = "header"
    /\ out' = print(out, HeaderLine)
    /\ pc' = "iter"
    /\ UNCHANGED <<gen, data, idx, err, fnVars, hexVars>>

\* data['company_identifiers'] (line 8), data['uuids'] (line 19)
Subscript ==
    /\ pc = "iter"
    /\ IF TopKey(gen) \in DOMAIN data
       THEN /\ pc' = "loop"
            /\ idx' = 1
            /\ err' = err
       ELSE /\ Raise("KeyError")
            /\ idx' = idx
    /\ UNCHANGED <<gen, data, out, fnVars, hexVars>>

\* One pass of the loop body: line 9 / line 20
PrintEntry ==
    /\ pc = "loop"
    /\ idx <= Len(data[TopKey(gen)])
    /\ LET entry == data[TopKey(gen)][idx]
       IN IF Fields(gen) \subseteq DOMAIN entry
          THEN /\ out' = print(out, IF gen = "company" THEN company_line(entry)
                                                       ELSE uuid_line(entry))
               /\ idx' = idx + 1
               /\ UNCHANGED <<pc, err>>
          ELSE /\ Raise("KeyError")
               /\ UNCHANGED <<idx, out>>
    /\ UNCHANGED <<gen, data, fnVars, hexVars>>

\* The list is exhausted.
EndLoop ==
    /\ pc = "loop"
    /\ idx > Len(data[TopKey(gen)])
    /\ pc' = IF gen = "company" THEN "default" ELSE "done"
    /\ UNCHANGED <<gen, data, idx, out, err, fnVars, hexVars>>

\* generate_company_list.py line 10
PrintDefault ==
    /\ pc = "default"
    /\ out' = print(out, DefaultLine)
    /\ pc' = "close"
    /\ UNCHANGED <<gen, data, idx, err, fnVars, hexVars>>

\* generate_company_list.py line 11
PrintClose ==
    /\ pc = "close"
    /\ out' = print(out, CloseLine)
    /\ pc' = "done"
    /\ UNCHANGED <<gen, data, idx, err, fnVars, hexVars>>

Next ==
    \/ FetchFails
    \/ ParseFails
    \/ Load
    \/ PrintHeader
    \/ Subscript
    \/ PrintEntry
    \/ EndLoop
    \/ PrintDefault
    \/ PrintClose

Spec == Init /\ [][Next]_vars

-----------------------------------------------------------------------------
(* constify applied to bounded names *)

Alphabet == {"/", "I", "r", "M", "C", "3", "D", "-", " ", "_", "\n"}

BluetoothLE == <<"B", "l", "u", "e", "t", "o", "o", "t", "h", " ", "L", "E">>
IrMCSync == <<"I", "r", "M", "C", " ", "S", "y", "n", "c">>
Printer3D == <<"3", "D", " ", "P", "r", "i", "n", "t", "e", "r">>
ObexObjectPush ==
    <<"O", "B", "E", "X", " ", "O", "b", "j", "e", "c", "t", " ", "P", "u", "s", "h">>
BluetoothLEFragment == <<"B", "l", "u", "e", "t", "o", "o", "t", "h", "L", "E">>
Printer3DFragment == <<"3", "D", "P", "r", "i", "n", "t", "e", "r">>

Fixtures ==
    {BluetoothLE, IrMCSync, Printer3D, ObexObjectPush, BluetoothLEFragment,
     Printer3DFragment}

Names == SeqsUpTo(Alphabet, MaxLen) \cup Fixtures

InitConstify ==
    /\ gen = "none"
    /\ pc = "name"
    /\ data = NoData
    /\ idx = 0
    /\ out = <<>>
    /\ err = ""
    /\ name \in Names
    /\ ident = <<>> /\ ident2 = <<>>
    /\ uuid = 0 /\ lit = <<>>

\* ident = constify(name)
Constify ==
    /\ pc = "name"
    /\ ident' = constify(name)
    /\ pc' = "constified"
    /\ UNCHANGED <<name, ident2, genVars, hexVars>>

\* ident2 = constify(ident)
Reconstify ==
    /\ pc = "constified"
    /\ ident2' = constify(ident)
    /\ pc' = "reconstified"
    /\ UNCHANGED <<name, ident, genVars, hexVars>>

NextConstify ==
    \/ Constify
    \/ Reconstify

SpecConstify == InitConstify /\ [][NextConstify]_vars

-----------------------------------------------------------------------------
(* '{:#04x}'.format(uuid) applied to the 16-bit values *)

InitHex ==
    /\ gen = "none"
    /\ pc = "value"
    /\ data = NoData
    /\ idx = 0
    /\ out = <<>>
    /\ err = ""
    /\ name = <<>> /\ ident = <<>> /\ ident2 = <<>>
    /\ uuid \in 0..MaxUuid
    /\ lit = <<>>

\* generate_ids.py line 20, the second format field
FormatUuid ==
    /\ pc = "value"
    /\ lit' = format_x(uuid, TRUE, 4)
    /\ pc' = "formatted"
    /\ UNCHANGED <<uuid, genVars, fnVars>>

NextHex == FormatUuid

SpecHex == InitHex /\ [][NextHex]_vars

-----------------------------------------------------------------------------
(* The normalization as the specification words it, steps 1 to 7 *)

Chars(s) == {s[i] : i \in 1..Len(s)}
Max(S) == CHOOSE m \in S : \A x \in S : x <= m
Min(S) == CHOOSE m \in S : \A x \in S : m <= x

\* Step 1: every '/' deleted.
DocDeleteSlash(s) == SelectSeq(s, LAMBDA c : c # "/")

\* Steps 2 and 3: each occurrence of the literal replaced, left to right.
OccursAt(s, word, i) ==
    /\ i + Len(word) - 1 <= Len(s)
    /\ SubSeq(s, i, i + Len(word) - 1) = word

RECURSIVE DocReplaceEach(_, _, _)
DocReplaceEach(s, word, repl) ==
    LET at == {i \in 1..Len(s) : OccursAt(s, word, i)}
    IN IF at = {} THEN s
       ELSE SubSeq(s, 1, Min(at) - 1) \o repl
            \o DocReplaceEach(Suffix(s, Min(at) + Len(word)), word, repl)

DocRewrite(s) ==
    DocReplaceEach(
        DocReplaceEach(DocDeleteSlash(s), <<"I", "r", "M", "C">>, <<"I", "R", "M", "C">>),
        <<"3", "D">>, <<"T", "H", "R", "E", "E", "D">>)

\* Step 4: the fragments are the maximal runs of characters that are no
\* delimiter, in left-to-right order.
DocRuns(s) ==
    {r \in (1..Len(s)) \X (1..Len(s)) :
        /\ r[1] <= r[2]
        /\ \A k \in r[1]..r[2] : s[k] \notin Delims
        /\ r[1] = 1 \/ s[r[1] - 1] \in Delims
        /\ r[2] = Len(s) \/ s[r[2] + 1] \in Delims}

RECURSIVE DocInOrder(_, _)
DocInOrder(s, runs) ==
    IF runs = {} THEN <<>>
    ELSE LET first == CHOOSE r \in runs : \A q \in runs : r[1] <= q[1]
         IN <<SubSeq(s, first[1], first[2])>> \o DocInOrder(s, runs \ {first})

DocFragments(s) == DocInOrder(s, DocRuns(s))

\* Step 5: the last position of the word piece that begins at position i of
\* fragment f, 0 when no piece begins there.  A piece is (a) an uppercase
\* letter followed by one or more lowercase letters, or (b) a maximal run of
\* uppercase letters.  As documented (beforeWord) the run stops at the end of
\* the fragment or before an uppercase letter that begins a lowercase word;
\* otherwise it stops at the end of the fragment, before a line break that
\* ends the fragment, or before any uppercase letter.
DocPieceEnd(f, i, beforeWord) ==
    IF f[i] \notin Upper THEN 0
    ELSE IF i < Len(f) /\ f[i + 1] \in Lower
    THEN Max({e \in (i + 1)..Len(f) : \A k \in (i + 1)..e : f[k] \in Lower})
    ELSE LET stops ==
                 {e \in i..Len(f) :
                     /\ \A k \in i..e : f[k] \in Upper
                     /\ \/ e = Len(f)
                        \/ /\ beforeWord
                           /\ f[e + 1] \in Upper
                           /\ e + 2 <= Len(f) /\ f[e + 2] \in Lower
                        \/ /\ ~beforeWord
                           /\ \/ f[e + 1] \in Upper
                              \/ e + 1 = Len(f) /\ f[e + 1] = "\n"}
         IN IF stops = {} THEN 0 ELSE Max(stops)

RECURSIVE DocPieces(_, _, _)
DocPieces(f, i, beforeWord) ==
    IF i > Len(f) THEN <<>>
    ELSE LET e == DocPieceEnd(f, i, beforeWord)
         IN IF e = 0 THEN DocPieces(f, i + 1, beforeWord)
            ELSE <<SubSeq(f, i, e)>> \o DocPieces(f, e + 1, beforeWord)

\* Steps 6 and 7: every piece uppercased, all pieces joined by one '_'.
RECURSIVE DocJoin(_)
DocJoin(ws) ==
    IF ws = <<>> THEN <<>>
    ELSE IF Len(ws) = 1 THEN [k \in 1..Len(ws[1]) |-> char_upper(ws[1][k])]
    ELSE DocJoin(SubSeq(ws, 1, Len(ws) - 1)) \o <<"_">>
         \o [k \in 1..Len(ws[Len(ws)]) |-> char_upper(ws[Len(ws)][k])]

RECURSIVE DocAllPieces(_, _)
DocAllPieces(frags, beforeWord) ==
    IF frags = <<>> THEN <<>>
    ELSE DocPieces(Head(frags), 1, beforeWord) \o DocAllPieces(Tail(frags), beforeWord)

DocConstify(s, beforeWord) == DocJoin(DocAllPieces(DocFragments(DocRewrite(s)), beforeWord))

\* The documented results of the fixtures.
FixtureResult(n) ==
    IF n = BluetoothLE
    THEN <<"B", "L", "U", "E", "T", "O", "O", "T", "H", "_", "L", "E">>
    ELSE IF n = IrMCSync THEN <<"I", "R", "M", "C", "_", "S", "Y", "N", "C">>
    ELSE IF n = Printer3D
    THEN <<"T", "H", "R", "E", "E", "D", "_", "P", "R", "I", "N", "T", "E", "R">>
    ELSE IF n = ObexObjectPush
    THEN <<"O", "B", "E", "X", "_", "O", "B", "J", "E", "C", "T", "_", "P", "U", "S", "H">>
    ELSE IF n = BluetoothLEFragment
    THEN <<"B", "L", "U", "E", "T", "O", "O", "T", "H", "_", "L", "E">>
    ELSE <<"T", "H", "R", "E", "E", "D", "_", "P", "R", "I", "N", "T", "E", "R">>

-----------------------------------------------------------------------------
(* Claims about constify, checked under SpecConstify *)

\* C1 as stated: constify(name) is the result of the documented seven steps,
\* where an all-uppercase piece stops only at the end of the fragment or
\* before an uppercase letter that begins a lowercase word.
C1_ConstifyIsDocumented ==
    pc # "name" => ident = DocConstify(name, TRUE)

\* C1 amended: constify(name) is the result of the seven steps where an
\* all-uppercase piece is the longest run of uppercase letters that stops at
\* the end of the fragment, before a line break that ends the fragment, or
\* before any uppercase letter, characters that begin no piece being dropped;
\* the fixtures give the documented tokens.
C1_ConstifyIsDocumentedAmended ==
    pc # "name" =>
        /\ ident = DocConstify(name, FALSE)
        /\ name \in Fixtures => ident = FixtureResult(name)

\* C1 witness: an uppercase run that ends before a digit has been normalized,
\* and its last letter was dropped.
C1_Witness ==
    /\ pc = "constified"
    /\ name = <<"I", "M", "C", "3">>
    /\ ident = <<"I", "M">>

\* C5: constify(constify(x)) = constify(x).
C5_Idempotent ==
    pc = "reconstified" => ident2 = ident

\* C5 witness: a name that is not its own token has been normalized twice,
\* the token having several words.
C5_Witness ==
    /\ pc = "reconstified"
    /\ name # ident
    /\ "_" \in Chars(ident)
    /\ "r" \in Chars(name)

IsToken(t) ==
    \/ t = <<>>
    \/ /\ \A i \in 1..Len(t) : t[i] \in Upper \cup {"_"}
       /\ t[1] # "_"
       /\ t[Len(t)] # "_"
       /\ \A i \in 1..(Len(t) - 1) : ~(t[i] = "_" /\ t[i + 1] = "_")

\* C9: the result of constify is empty or runs of A-Z separated by exactly
\* one underscore each, with no leading or trailing underscore.
C9_TokenShape ==
    /\ pc # "name" => IsToken(ident)
    /\ pc = "reconstified" => IsToken(ident2)

\* C9 witness: a name with a digit and a lowercase letter gave a token of
\* several words.
C9_Witness ==
    /\ pc = "constified"
    /\ "3" \in Chars(name)
    /\ "r" \in Chars(name)
    /\ "_" \in Chars(ident)

\* A name whose fragments are ASCII letters only and begin with an uppercase
\* letter.
WellFormed(n) ==
    LET frags == fragments(n)
    IN \A i \in 1..Len(frags) :
           /\ Chars(frags[i]) \subseteq Upper \cup Lower
           /\ frags[i][1] \in Upper

\* C10: on a well-formed name the pieces of every fragment concatenate back
\* to the fragment, and the token without its underscores is the uppercased
\* rewritten name without its delimiters.
C10_NoCharacterLost ==
    (pc # "name" /\ WellFormed(name)) =>
        LET frags == fragments(name)
        IN /\ \A i \in 1..Len(frags) : sum_lists(findall(frags[i])) = frags[i]
           /\ SelectSeq(ident, LAMBDA c : c # "_")
                  = SelectSeq([k \in 1..Len(rewrite(name)) |-> char_upper(rewrite(name)[k])],
                              LAMBDA c : c \notin Delims)

\* C10 witness: a well-formed name with a fragment cut into several pieces.
C10_Witness ==
    /\ pc = "constified"
    /\ WellFormed(name)
    /\ fragments(name) # <<>>
    /\ Len(pieces(name)) > Len(fragments(name))

-----------------------------------------------------------------------------
(* Claim about the uuid literal, checked under SpecHex *)

HexDigitSet == {HexDigits[i] : i \in 1..16}

\* The number of hexadecimal digits of v without leading zeros.
NumDigits(v) == Min({d \in 1..7 : v < 16 ^ d})

\* The value a sequence of lowercase hexadecimal digits denotes.
RECURSIVE HexValue(_)
HexValue(ds) ==
    IF ds = <<>> THEN 0
    ELSE 16 * HexValue(SubSeq(ds, 1, Len(ds) - 1))
         + (CHOOSE i \in 1..16 : HexDigits[i] = ds[Len(ds)]) - 1

IsHexLiteral(t) ==
    /\ Len(t) >= 3
    /\ SubSeq(t, 1, 2) = <<"0", "x">>
    /\ \A i \in 3..Len(t) : t[i] \in HexDigitSet

\* C6 as stated: the literal is 0x followed by the hexadecimal digits of the
\* value at minimum width, with no padding.
C6_MinimumWidthHex ==
    pc = "formatted" =>
        /\ IsHexLiteral(lit)
        /\ HexValue(Suffix(lit, 3)) = uuid
        /\ Len(lit) = 2 + NumDigits(uuid)

\* C6 amended: the literal is 0x followed by the lowercase hexadecimal digits
\* of the value, filled with zeros to at least two digits and never to more
\* (0x04 for 4, 0x180d for 6157); reading the literal back gives the value,
\* so two values never share a literal.
C6_TwoDigitMinimumHex ==
    pc = "formatted" =>
        /\ IsHexLiteral(lit)
        /\ HexValue(Suffix(lit, 3)) = uuid
        /\ Len(lit) = 2 + (IF NumDigits(uuid) < 2 THEN 2 ELSE NumDigits(uuid))

\* C6 witness: the value 4 has been formatted as 0x04.
C6_Witness ==
    /\ pc = "formatted"
    /\ uuid = 4
    /\ lit = <<"0", "x", "0", "4">>

-----------------------------------------------------------------------------
(* Claims about the runs of the scripts, checked under Spec *)

Entries == data[TopKey(gen)]
Line(entry) == IF gen = "company" THEN company_line(entry) ELSE uuid_line(entry)
Before == IF gen = "company" THEN 1 ELSE 0    \* lines printed before the loop

\* C2: the entry lines are the records' lines in the records' order, one per
\* record, nothing dropped, repeated or moved; the company table ends with
\* exactly one default arm after all entry arms.
C2_OrderPreserving ==
    pc \in {"loop", "default", "close", "done"} =>
        /\ Len(out) >= Before + idx - 1
        /\ \A i \in 1..(idx - 1) : out[Before + i] = Line(Entries[i])
        /\ pc = "loop" => Len(out) = Before + idx - 1
        /\ pc = "done" =>
              /\ idx - 1 = Len(Entries)
              /\ Len(out) = Before + Len(Entries) + (IF gen = "company" THEN 2 ELSE 0)
              /\ gen = "company" =>
                    /\ out[Len(out) - 1] = DefaultLine
                    /\ Cardinality({i \in 1..Len(out) : out[i] = DefaultLine}) = 1

\* C2 witness: a finished company table of two records with the same value
\* and different names.
C2_Witness ==
    /\ pc = "done"
    /\ gen = "company"
    /\ Len(Entries) = 2
    /\ Entries[1].value = Entries[2].value
    /\ Entries[1].name # Entries[2].name

\* The position of the quote that ends the string literal whose text begins
\* at position q, as the target language reads it: a backslash takes the
\* next character with it. 0 when the literal does not end on the line.
RECURSIVE LiteralEnd(_, _)
LiteralEnd(text, q) ==
    IF q > Len(text) THEN 0
    ELSE IF text[q] = "\\" THEN LiteralEnd(text, q + 2)
    ELSE IF text[q] = "\"" THEN q
    ELSE LiteralEnd(text, q + 1)

IsArm(line) == Len(line) >= 6 /\ SubSeq(line, 1, 6) = <<" ", " ", " ", " ", "0", "x">>
FirstQuote(line) == Min({i \in 1..Len(line) : line[i] = "\""})

\* C3: in every entry arm the string literal opened after Some( is ended by
\* the closing quote the generator writes, the third character from the end
\* of the line, and by no character of the name.
C3_LiteralClosedByGenerator ==
    gen = "company" =>
        \A i \in 1..Len(out) :
            IsArm(out[i]) =>
                LiteralEnd(out[i], FirstQuote(out[i]) + 1) = Len(out[i]) - 2

\* C4: a run that failed has written no output line.
C4_AllOrNothing ==
    pc = "crashed" => out = <<>>

\* The identifier of a constant declaration: the text between 'pub const '
\* and the first colon.
IdentOf(line) == SubSeq(line, 11, Min({i \in 1..Len(line) : line[i] = ":"}) - 1)

Digits == {"0", "1", "2", "3", "4", "5", "6", "7", "8", "9"}

\* Letters, digits and underscore, not empty, no digit first.
IsIdentifier(t) ==
    /\ t # <<>>
    /\ Chars(t) \subseteq Upper \cup Lower \cup Digits \cup {"_"}
    /\ t[1] \notin Digits

\* C7: every emitted constant declaration has a non-empty, valid identifier
\* (a name that normalizes to the empty token fails the run instead).
C7_IdentifierNeverEmpty ==
    gen = "uuid" => \A i \in 1..Len(out) : IsIdentifier(IdentOf(out[i]))

\* C8: no run emits two constant declarations with the same identifier for
\* records of different names.
C8_IdentifiersDistinct ==
    gen = "uuid" =>
        \A i, j \in 1..Len(out) :
            (i < j /\ Entries[i].name # Entries[j].name) => IdentOf(out[i]) # IdentOf(out[j])

=============================================================================
